---- MODULE Spec2Model ----
(***************************************************************************)
(* A model of ServerlessSNSPlusPlugin (src/src/index.js): one plugin       *)
(* instance, the host's variable resolutions and lifecycle hooks, and the  *)
(* remote requests (STS, CloudFormation, SNS) they issue through           *)
(* provider.request.  Every promise continuation runs as one atomic step.  *)
(***************************************************************************)
EXTENDS Integers, Sequences, FiniteSets, TLC

\* ------------------------------------------------------------------ bounds
\* functions of the service, events of all its functions together, variable
\* strings the host resolves, resources of the deployed stack
MaxFuncs == 2
MaxEvents == 2
MaxRefs == 2
MaxResources == 2

\* ------------------------------------------------------------ JS values
\* The JavaScript value undefined; a template literal prints it as this text.
Undefined == "undefined"
\* A non-string value (an object such as {Ref: ...}) in a place that may hold a string.
RefObject == "[object Object]"

Truthy(v) == v # Undefined /\ v # ""
IsString(v) == v # Undefined /\ v # RefObject
\* obj.key for an object that may lack the key
Get(obj, key) == IF key \in DOMAIN obj THEN obj[key] ELSE Undefined
\* {...a, ...b}
Merge(a, b) == [k \in DOMAIN a \cup DOMAIN b |-> IF k \in DOMAIN b THEN b[k] ELSE a[k]]
EmptyObject == [k \in {} |-> Undefined]

SeqsUpTo(S, n) == UNION {[1..k -> S] : k \in 0..n}
Range(s) == {s[i] : i \in DOMAIN s}

\* --------------------------------------------------------- configurations
TopicNames == {"a", "b"}
\* An event of a function: a native one, or one tagged snsPlus: <topic name>.
EventKinds == {[sns |-> "existing-topic"]} \cup {[snsPlus |-> n] : n \in TopicNames}
\* A function object: with an events list, or without the events key.
FunctionKinds == {[handler |-> "h"]}
                 \cup {[handler |-> "h", events |-> es] : es \in SeqsUpTo(EventKinds, MaxEvents)}
EventCount(funcs) ==
    LET n(k) == IF "events" \in DOMAIN funcs[k] THEN Len(funcs[k].events) ELSE 0
        sum[k \in 0..Len(funcs)] == IF k = 0 THEN 0 ELSE sum[k - 1] + n(k)
    IN sum[Len(funcs)]
\* serverless.service.functions in Object.keys order
FunctionMaps == {f \in SeqsUpTo(FunctionKinds, MaxFuncs) : EventCount(f) <= MaxEvents}
SmallFunctionMaps == {f \in FunctionMaps : Len(f) <= 1}
SingleEventFunctionMaps == {f \in SmallFunctionMaps : EventCount(f) <= 1}
ProviderKinds == {[name |-> "aws"], [name |-> "aws", region |-> "ap-south-1"]}
\* service without the custom key, with snsPlusClean off, with snsPlusClean on
CustomKinds == {EmptyObject, [custom |-> [snsPlusClean |-> FALSE]],
                [custom |-> [snsPlusClean |-> TRUE]]}
OptionKinds == {[stage |-> "dev"], [stage |-> "dev", region |-> "eu-west-1"]}
\* The variable strings the host hands to getValueFromSource.
VariableStrings == {"snsPlus:a", "self:custom.snsPlus:a"}

\* ------------------------------------------------------------ remote world
\* data.Account of a successful STS getCallerIdentity
StsAccount == "123456789012"
DeployedArns == {"arn:aws:sns:us-east-1:123456789012:" \o n : n \in TopicNames}
ResourceKinds == {[Type |-> "AWS::SNS::Subscription", Properties |-> [TopicArn |-> t]] :
                     t \in DeployedArns \cup {RefObject, ""}}
                 \cup {[Type |-> "AWS::Lambda::Function", Properties |-> [Handler |-> "h"]]}
\* The deployed stack: none, or its template's Resources in Object.keys order
NoStack == [exists |-> FALSE]
Stacks == {NoStack} \cup {[exists |-> TRUE, Resources |-> r] :
                             r \in SeqsUpTo(ResourceKinds, MaxResources)}
Counts == {"0", "1"}
\* What a getTopicAttributes request resolves to: nothing, or the attributes.
NullResponse == [null |-> TRUE]
AttributeResponses == {NullResponse}
    \cup {[Attributes |-> [SubscriptionsPending |-> p, SubscriptionsConfirmed |-> c]] :
             p \in Counts, c \in Counts}

HookNames == {"before:package:initialize", "before:deploy:deploy", "after:deploy:deploy"}

VARIABLES
    probe,          \* a call of a pure method on its own: its arguments and its result
    stack,          \* the CloudFormation stack deployed before this run
    variableStrings, \* the variable strings of the configuration, in the host's order
    service,        \* this.serverless.service
    options,        \* this.options
    currentTopics,  \* this.currentTopics
    topicRefs,      \* this.topicRefs
    accountId,      \* this.accountId
    accoundId,      \* this.accoundId, the field getAccountId tests
    hook,           \* per hook: the step of its promise chain and its state
    tasks,          \* the calls of the wrapped getValueFromSource, in call order
    calls           \* the provider.request calls, in issue order

vars == <<probe, stack, variableStrings, service, options, currentTopics, topicRefs, accountId, accoundId, hook, tasks, calls>>

\* ---------------------------------------------------------- constructor
\* The inputs are drawn from three families, each varying one group of inputs
\* and holding the others at one value: the configuration (functions and
\* regions), the deployed stack with the cleanup switch, and the variables.
InitConfiguration ==
    /\ service \in {[functions |-> f, provider |-> p] : f \in FunctionMaps, p \in ProviderKinds}
                    \cup {[provider |-> p] : p \in ProviderKinds}
    /\ options \in OptionKinds
    /\ stack = NoStack
    /\ variableStrings = <<>>

InitStack ==
    /\ service \in {Merge([functions |-> f, provider |-> [name |-> "aws"]], c) :
                       f \in SingleEventFunctionMaps, c \in CustomKinds}
    /\ options = [stage |-> "dev"]
    /\ stack \in Stacks
    /\ variableStrings = <<>>

InitVariables ==
    /\ service \in {[functions |-> f, provider |-> [name |-> "aws"]] : f \in SmallFunctionMaps}
    /\ options = [stage |-> "dev"]
    /\ stack = NoStack
    /\ variableStrings \in SeqsUpTo(VariableStrings, MaxRefs)

NoProbe == [op |-> "none"]

Init ==
    /\ InitConfiguration \/ InitStack \/ InitVariables
    /\ probe = NoProbe
    /\ currentTopics = <<>>
    /\ topicRefs = <<>>
    /\ accountId = Undefined
    /\ accoundId = Undefined
    /\ hook = [h \in HookNames |-> [pc |-> 0, st |-> "idle"]]
    /\ tasks = <<>>
    /\ calls = <<>>

\* ------------------------------------------------------- pure functions
\* The pattern without its ^ anchor: variableString.match(/snsPlus:/g)
MatchesSnsPlusSyntaxUnanchored(variableString) ==
    \E k \in 1..Len(variableString) :
        k + 7 <= Len(variableString) /\ SubSeq(variableString, k, k + 7) = "snsPlus:"

\* variableString.match(/^snsPlus:/g)
MatchesSnsPlusSyntax(variableString) ==
    Len(variableString) >= 8 /\ SubSeq(variableString, 1, 8) = "snsPlus:"
\* variableString.replace(/^snsPlus:/g, "")
StripSnsPlusSyntax(variableString) ==
    IF MatchesSnsPlusSyntax(variableString)
    THEN SubSeq(variableString, 9, Len(variableString))
    ELSE variableString

\* What the host's own getValueFromSource returns for a variable string.
OriginalGetValueFromSource(variableString) == "value-of(" \o variableString \o ")"

\* getRegion with the service's region taking precedence over the option
getRegionProviderFirst ==
    IF "provider" \in DOMAIN service /\ Truthy(Get(service.provider, "region"))
    THEN service.provider.region
    ELSE IF Truthy(Get(options, "region")) THEN options.region ELSE "us-east-1"

getRegion ==
    IF Truthy(Get(options, "region")) THEN options.region
    ELSE IF "provider" \in DOMAIN service /\ Truthy(Get(service.provider, "region"))
         THEN service.provider.region
         ELSE "us-east-1"

\* The template literal of formatSNSArn with the region left out
FormatArnWithoutRegion(region, acct, topicName) ==
    "arn:aws:sns:" \o acct \o ":" \o topicName

\* The template literal of formatSNSArn, given what getRegion() returned
FormatArn(region, acct, topicName) ==
    "arn:aws:sns:" \o region \o ":" \o acct \o ":" \o topicName

formatSNSArn(acct, topicName) == FormatArn(getRegion, acct, topicName)

allFunctions == IF "functions" \in DOMAIN service THEN service.functions ELSE <<>>

EventTagged(event) == Truthy(Get(event, "snsPlus"))

\* events.every instead of events.some
IsSNSPlusFunctionEvery(func) ==
    "events" \in DOMAIN func /\ \A i \in DOMAIN func.events : EventTagged(func.events[i])

IsSNSPlusFunction(func) ==
    "events" \in DOMAIN func /\ \E i \in DOMAIN func.events : EventTagged(func.events[i])

allSNSPlusFunctions == SelectSeq(allFunctions, IsSNSPlusFunction)

RECURSIVE ConcatEvents(_)
ConcatEvents(funcs) ==
    IF funcs = <<>> THEN <<>> ELSE Head(funcs).events \o ConcatEvents(Tail(funcs))

TopicOf(event) == event.snsPlus

RECURSIVE Dedup(_)
Dedup(s) ==
    IF s = <<>> THEN <<>>
    ELSE <<Head(s)>> \o Dedup(SelectSeq(Tail(s), LAMBDA x : x # Head(s)))

\* allSNSPlusTopics with each name listed once
allSNSPlusTopicsDeduped ==
    LET tagged == SelectSeq(ConcatEvents(allSNSPlusFunctions), EventTagged)
    IN Dedup([i \in 1..Len(tagged) |-> TopicOf(tagged[i])] \o topicRefs)

allSNSPlusTopics ==
    LET tagged == SelectSeq(ConcatEvents(allSNSPlusFunctions), EventTagged)
    IN [i \in 1..Len(tagged) |-> TopicOf(tagged[i])] \o topicRefs

\* lines 45-51: the rewrite of one event and of the function map, given the account id
\* The rewrite replacing the tagged event by a native one, its tag dropped
ConvertEventDroppingTag(event, acct) ==
    IF EventTagged(event)
    THEN [sns |-> formatSNSArn(acct, event.snsPlus)]
    ELSE event

ConvertEvent(event, acct) ==
    IF EventTagged(event)
    THEN Merge(event, [sns |-> formatSNSArn(acct, event.snsPlus)])
    ELSE event

ConvertedFunctions(acct) ==
    [k \in 1..Len(allFunctions) |->
        LET func == allFunctions[k] IN
        IF IsSNSPlusFunction(func)
        THEN [func EXCEPT !.events =
                 [j \in 1..Len(func.events) |-> ConvertEvent(func.events[j], acct)]]
        ELSE func]

\* The template used when getTemplate fails: JSON.parse('{"Resources": {}}').
FallbackTemplate == [Resources |-> <<>>]

\* A getTemplate request without the .catch: its failure rejects the step.
TemplateSettlesUncaught(ok) == ok
\* .catch(() => fallback template): the promise is resolved whether the request
\* succeeded or failed.
TemplateSettles(ok) == TRUE

\* The filter without its typeof test
IsLiteralSubscriptionUntyped(resource) ==
    /\ resource.Type = "AWS::SNS::Subscription"
    /\ Truthy(Get(resource.Properties, "TopicArn"))

IsLiteralSubscription(resource) ==
    /\ resource.Type = "AWS::SNS::Subscription"
    /\ Truthy(Get(resource.Properties, "TopicArn"))
    /\ IsString(Get(resource.Properties, "TopicArn"))

TopicArnOf(resource) == resource.Properties.TopicArn

SnapshotTopics(resources) ==
    LET subscriptions == SelectSeq(resources, IsLiteralSubscription)
    IN [i \in 1..Len(subscriptions) |-> TopicArnOf(subscriptions[i])]

\* cleanup that runs whatever custom holds
CleanEnabledAlways == TRUE

\* the guard testing custom only, not its snsPlusClean
CleanEnabledIfCustom == "custom" \in DOMAIN service

CleanEnabled ==
    /\ "custom" \in DOMAIN service
    /\ "snsPlusClean" \in DOMAIN service.custom
    /\ service.custom.snsPlusClean = TRUE

\* the test with the confirmed count left out
ShouldDeletePendingOnly(resp) ==
    /\ resp # NullResponse
    /\ resp.Attributes.SubscriptionsPending = "0"

ShouldDelete(resp) ==
    /\ resp # NullResponse
    /\ resp.Attributes.SubscriptionsPending = "0"
    /\ resp.Attributes.SubscriptionsConfirmed = "0"

\* getAccountId sharing a lookup that is in flight: a caller that finds one takes
\* the cached branch
AccountIdCachedOrInFlight ==
    \/ Truthy(accoundId)
    \/ \E i \in DOMAIN calls :
          calls[i].method = "getCallerIdentity" /\ calls[i].st = "pending"

\* The test at the head of getAccountId.
AccountIdCached == Truthy(accoundId)

\* ------------------------------------------------------ promise plumbing
\* The hooks with createSNSTopics chained in the post-deploy hook
HooksCreateAfterDeploy ==
    [h \in HookNames |->
        CASE h = "before:package:initialize" -> <<"convertToSNSEvents">>
          [] h = "before:deploy:deploy" -> <<"saveCurrentSNSTopics">>
          [] h = "after:deploy:deploy" -> <<"createSNSTopics", "cleanUpOrphanedTopics">>]

\* The hooks with the two steps of the pre-deploy hook in the other order
HooksCreateFirst ==
    [h \in HookNames |->
        CASE h = "before:package:initialize" -> <<"convertToSNSEvents">>
          [] h = "before:deploy:deploy" -> <<"createSNSTopics", "saveCurrentSNSTopics">>
          [] h = "after:deploy:deploy" -> <<"cleanUpOrphanedTopics">>]

\* The steps each hook chains with .then, in order.
Hooks == [h \in HookNames |->
            CASE h = "before:package:initialize" -> <<"convertToSNSEvents">>
              [] h = "before:deploy:deploy" -> <<"saveCurrentSNSTopics", "createSNSTopics">>
              [] h = "after:deploy:deploy" -> <<"cleanUpOrphanedTopics">>]

Ready(h, step) == hook[h].st = "ready" /\ Hooks[h][hook[h].pc] = step
Waiting(h, step) == hook[h].st = "waiting" /\ Hooks[h][hook[h].pc] = step

\* The step a hook is in resolved: the chain calls its next step, or the hook resolves.
StepResolved(h) ==
    [hook EXCEPT ![h] = IF @.pc < Len(Hooks[h])
                        THEN [pc |-> @.pc + 1, st |-> "ready"]
                        ELSE [pc |-> @.pc, st |-> "resolved"]]
StepWaiting(h) == [hook EXCEPT ![h].st = "waiting"]
StepRejected(h) == [hook EXCEPT ![h].st = "rejected"]

\* provider.request(service, method, params, ...): a pending call
Request(method, params, h, idx) ==
    [method |-> method, params |-> params, by |-> [hook |-> h, idx |-> idx],
     st |-> "pending", resp |-> EmptyObject]

Pending(i, method) == calls[i].method = method /\ calls[i].st = "pending"
Settle(i, ok, resp) ==
    [calls EXCEPT ![i].st = IF ok THEN "ok" ELSE "failed", ![i].resp = resp]

\* A combinator that resolves with the first promise to resolve
PromiseAny(states) ==
    IF \E k \in DOMAIN states : states[k] = "resolved" THEN "resolved"
    ELSE IF states # <<>> /\ \A k \in DOMAIN states : states[k] = "rejected" THEN "rejected"
    ELSE IF states = <<>> THEN "resolved" ELSE "pending"

\* BbPromise.all over promises in the given states
PromiseAll(states) ==
    IF \E k \in DOMAIN states : states[k] = "rejected" THEN "rejected"
    ELSE IF \A k \in DOMAIN states : states[k] = "resolved" THEN "resolved"
    ELSE "pending"

\* The state of a hook whose current step returned BbPromise.all over `states`
AllSettles(h, states) ==
    CASE PromiseAll(states) = "rejected" -> StepRejected(h)
      [] PromiseAll(states) = "resolved" -> StepResolved(h)
      [] OTHER -> StepWaiting(h)

PromiseOf(call) ==
    CASE call.st = "pending" -> "pending" [] call.st = "ok" -> "resolved" [] OTHER -> "rejected"
PromisesOf(cs) == [i \in 1..Len(cs) |-> PromiseOf(cs[i])]

CallsOf(cs, method, h) == SelectSeq(cs, LAMBDA c : c.method = method /\ c.by.hook = h)

\* ---------------------------------------------------------------- host
TasksSettled == \A k \in DOMAIN tasks : tasks[k].st \in {"resolved", "delegated"}
NoHookStarted == \A h \in HookNames : hook[h].st = "idle"

\* The host's lifecycle: the variables are populated before any hook runs, the
\* hooks run in lifecycle order, and a rejected hook or variable ends the command.
HostMayInvoke(h) ==
    /\ hook[h].st = "idle"
    /\ Len(tasks) = Len(variableStrings)
    /\ TasksSettled
    /\ \A g \in HookNames : hook[g].st \in {"idle", "resolved"}
    /\ h = "before:package:initialize" => NoHookStarted
    /\ h = "before:deploy:deploy" => hook["before:package:initialize"].st = "resolved"
    /\ h = "after:deploy:deploy" => hook["before:deploy:deploy"].st = "resolved"

\* hooks[h](): BbPromise.bind(this).then(first step)
InvokeHook(h) ==
    /\ HostMayInvoke(h)
    /\ hook' = [hook EXCEPT ![h] = [pc |-> 1, st |-> "ready"]]
    /\ UNCHANGED <<probe, stack, variableStrings, service, options, currentTopics, topicRefs, accountId, accoundId, tasks, calls>>

\* ------------------------------------------------- variable resolution
\* The wrapped getValueFromSource(variableString); for an snsPlus reference,
\* loadAndReplaceTopicFromVariable up to the request of getAccountId.
GetValueFromSource(variableString) ==
    /\ NoHookStarted
    /\ Len(tasks) < Len(variableStrings)
    /\ variableString = variableStrings[Len(tasks) + 1]
    /\ \A k \in DOMAIN tasks : tasks[k].st # "rejected"
    /\ LET k == Len(tasks) + 1
           topicName == StripSnsPlusSyntax(variableString)
           task == [variableString |-> variableString, topicName |-> topicName,
                    st |-> "pending", value |-> Undefined]
       IN IF ~MatchesSnsPlusSyntax(variableString)
          THEN /\ tasks' = Append(tasks, [task EXCEPT !.st = "delegated",
                                  !.topicName = Undefined,
                                  !.value = OriginalGetValueFromSource(variableString)])
               /\ UNCHANGED <<topicRefs, calls>>
          ELSE IF AccountIdCached
          THEN /\ topicRefs' = Append(topicRefs, topicName)
               /\ tasks' = Append(tasks, [task EXCEPT !.st = "resolved",
                                  !.value = formatSNSArn(accountId, topicName)])
               /\ UNCHANGED calls
          ELSE /\ tasks' = Append(tasks, task)
               /\ calls' = Append(calls, Request("getCallerIdentity", EmptyObject,
                                                 "getValueFromSource", k))
               /\ UNCHANGED topicRefs
    /\ UNCHANGED <<probe, stack, variableStrings, service, options, currentTopics, accountId, accoundId, hook>>

\* ------------------------------------------------------------- package
\* convertToSNSEvents up to the request of getAccountId
ConvertToSNSEvents(h) ==
    /\ Ready(h, "convertToSNSEvents")
    /\ IF AccountIdCached
       THEN /\ service' = IF "functions" \in DOMAIN service
                          THEN [service EXCEPT !.functions = ConvertedFunctions(accountId)]
                          ELSE service
            /\ hook' = StepResolved(h)
            /\ UNCHANGED calls
       ELSE /\ calls' = Append(calls, Request("getCallerIdentity", EmptyObject, h, 1))
            /\ hook' = StepWaiting(h)
            /\ UNCHANGED service
    /\ UNCHANGED <<probe, stack, variableStrings, options, currentTopics, topicRefs, accountId, accoundId, tasks>>

\* getAccountId with a catch that swallows the failed lookup
IdentitySettlesCaught(ok) == TRUE

\* Whether getAccountId's promise resolves, given whether the getCallerIdentity
\* request did: its then has no rejection handler and nothing catches.
IdentitySettles(ok) == ok

\* The STS request settles: getAccountId's continuation stores the account id, then
\* the continuation of the caller (a variable resolution or convertToSNSEvents) runs.
GetCallerIdentityResponds(i, ok) ==
    /\ i \in DOMAIN calls
    /\ Pending(i, "getCallerIdentity")
    /\ calls' = Settle(i, ok, IF ok THEN [Account |-> StsAccount] ELSE EmptyObject)
    /\ accountId' = IF ok THEN StsAccount ELSE accountId
    /\ LET by == calls[i].by
           settles == IdentitySettles(ok)
           account == IF ok THEN StsAccount ELSE Undefined
       IN
       IF by.hook = "getValueFromSource"
       THEN /\ topicRefs' = IF settles THEN Append(topicRefs, tasks[by.idx].topicName)
                            ELSE topicRefs
            /\ tasks' = IF settles
                        THEN [tasks EXCEPT ![by.idx].st = "resolved",
                                ![by.idx].value = formatSNSArn(account, tasks[by.idx].topicName)]
                        ELSE [tasks EXCEPT ![by.idx].st = "rejected"]
            /\ UNCHANGED <<probe, stack, variableStrings, service, hook>>
       ELSE /\ service' = IF settles /\ "functions" \in DOMAIN service
                          THEN [service EXCEPT !.functions = ConvertedFunctions(account)]
                          ELSE service
            /\ hook' = IF settles THEN StepResolved(by.hook) ELSE StepRejected(by.hook)
            /\ UNCHANGED <<topicRefs, tasks>>
    /\ UNCHANGED <<probe, stack, variableStrings, options, currentTopics, accoundId>>

\* ---------------------------------------------------------- pre-deploy
\* saveCurrentSNSTopics / currentSNSTopics up to the getTemplate request
SaveCurrentSNSTopics(h) ==
    /\ Ready(h, "saveCurrentSNSTopics")
    /\ calls' = Append(calls, Request("getTemplate", [StackName |-> "stack"], h, 1))
    /\ hook' = StepWaiting(h)
    /\ UNCHANGED <<probe, stack, variableStrings, service, options, currentTopics, topicRefs, accountId, accoundId, tasks>>

\* getTemplate settles: a failure is replaced by the empty template, the resources
\* are filtered and the result is stored in currentTopics.
GetTemplateResponds(i, ok) ==
    /\ i \in DOMAIN calls
    /\ Pending(i, "getTemplate")
    /\ ok => stack.exists
    /\ LET template == IF ok THEN [Resources |-> stack.Resources] ELSE FallbackTemplate
       IN /\ calls' = Settle(i, ok, IF ok THEN template ELSE EmptyObject)
          /\ IF TemplateSettles(ok)
             THEN /\ currentTopics' = SnapshotTopics(template.Resources)
                  /\ hook' = StepResolved(calls[i].by.hook)
             ELSE /\ currentTopics' = currentTopics
                  /\ hook' = StepRejected(calls[i].by.hook)
    /\ UNCHANGED <<probe, stack, variableStrings, service, options, topicRefs, accountId, accoundId, tasks>>

\* createSNSTopics: one createTopic request per entry of allSNSPlusTopics()
CreateSNSTopics(h) ==
    /\ Ready(h, "createSNSTopics")
    /\ LET topics == allSNSPlusTopics
           new == [k \in 1..Len(topics) |-> Request("createTopic", [Name |-> topics[k]], h, k)]
       IN /\ calls' = calls \o new
          /\ hook' = AllSettles(h, PromisesOf(new))
    /\ UNCHANGED <<probe, stack, variableStrings, service, options, currentTopics, topicRefs, accountId, accoundId, tasks>>

\* A createTopic request settles.
CreateTopicResponds(i, ok) ==
    /\ i \in DOMAIN calls
    /\ Pending(i, "createTopic")
    /\ calls' = Settle(i, ok, EmptyObject)
    /\ LET h == calls[i].by.hook IN
       hook' = IF Waiting(h, "createSNSTopics")
               THEN AllSettles(h, PromisesOf(CallsOf(calls', "createTopic", h)))
               ELSE hook
    /\ UNCHANGED <<probe, stack, variableStrings, service, options, currentTopics, topicRefs, accountId, accoundId, tasks>>

\* --------------------------------------------------------- post-deploy
CallBy(cs, method, h, k) ==
    cs[CHOOSE i \in DOMAIN cs : cs[i].method = method /\ cs[i].by = [hook |-> h, idx |-> k]]

\* The promise cleanUpOrphanedTopics maps entry k of currentTopics to: the lookup,
\* then the deleteTopic request or null.
CleanupPromise(cs, h, k) ==
    LET lookup == CallBy(cs, "getTopicAttributes", h, k) IN
    IF lookup.st = "ok" /\ ShouldDelete(lookup.resp)
    THEN PromiseOf(CallBy(cs, "deleteTopic", h, k))
    ELSE PromiseOf(lookup)

CleanupPromises(cs, h) == [k \in 1..Len(currentTopics) |-> CleanupPromise(cs, h, k)]

\* cleanUpOrphanedTopics: nothing unless custom.snsPlusClean is set; else one
\* getTopicAttributes request per entry of currentTopics
CleanUpOrphanedTopics(h) ==
    /\ Ready(h, "cleanUpOrphanedTopics")
    /\ IF ~CleanEnabled
       THEN /\ hook' = StepResolved(h)
            /\ UNCHANGED calls
       ELSE /\ calls' = calls \o [k \in 1..Len(currentTopics) |->
                            Request("getTopicAttributes", [TopicArn |-> currentTopics[k]], h, k)]
            /\ hook' = AllSettles(h, CleanupPromises(calls', h))
    /\ UNCHANGED <<probe, stack, variableStrings, service, options, currentTopics, topicRefs, accountId, accoundId, tasks>>

\* A getTopicAttributes request settles; on zero pending and zero confirmed
\* subscriptions its continuation issues the deleteTopic request.
GetTopicAttributesResponds(i, ok, resp) ==
    /\ i \in DOMAIN calls
    /\ Pending(i, "getTopicAttributes")
    /\ LET h == calls[i].by.hook
           settled == Settle(i, ok, IF ok THEN resp ELSE EmptyObject)
       IN /\ calls' = IF ok /\ ShouldDelete(resp)
                      THEN Append(settled, Request("deleteTopic", calls[i].params, h, calls[i].by.idx))
                      ELSE settled
          /\ hook' = IF Waiting(h, "cleanUpOrphanedTopics")
                     THEN AllSettles(h, CleanupPromises(calls', h))
                     ELSE hook
    /\ UNCHANGED <<probe, stack, variableStrings, service, options, currentTopics, topicRefs, accountId, accoundId, tasks>>

\* A deleteTopic request settles.
DeleteTopicResponds(i, ok) ==
    /\ i \in DOMAIN calls
    /\ Pending(i, "deleteTopic")
    /\ calls' = Settle(i, ok, EmptyObject)
    /\ LET h == calls[i].by.hook IN
       hook' = IF Waiting(h, "cleanUpOrphanedTopics")
               THEN AllSettles(h, CleanupPromises(calls', h))
               ELSE hook
    /\ UNCHANGED <<probe, stack, variableStrings, service, options, currentTopics, topicRefs, accountId, accoundId, tasks>>

\* -------------------------------------------------------- specification
Next ==
    \/ \E h \in HookNames : InvokeHook(h)
    \/ \E v \in VariableStrings : GetValueFromSource(v)
    \/ \E h \in HookNames : ConvertToSNSEvents(h)
    \/ \E i \in DOMAIN calls, ok \in BOOLEAN : GetCallerIdentityResponds(i, ok)
    \/ \E h \in HookNames : SaveCurrentSNSTopics(h)
    \/ \E i \in DOMAIN calls, ok \in BOOLEAN : GetTemplateResponds(i, ok)
    \/ \E h \in HookNames : CreateSNSTopics(h)
    \/ \E i \in DOMAIN calls, ok \in BOOLEAN : CreateTopicResponds(i, ok)
    \/ \E h \in HookNames : CleanUpOrphanedTopics(h)
    \/ \E i \in DOMAIN calls, r \in AttributeResponses : GetTopicAttributesResponds(i, TRUE, r)
    \/ \E i \in DOMAIN calls : GetTopicAttributesResponds(i, FALSE, NullResponse)
    \/ \E i \in DOMAIN calls, ok \in BOOLEAN : DeleteTopicResponds(i, ok)

Spec == Init /\ [][Next]_vars

\* ------------------------------------------- the pure methods on their own
\* The installed serverless: the version of its package.json as major, minor, patch
Versions == {<<major, minor, patch>> :
                major \in {0, 1, 2, 10}, minor \in {0, 9, 12, 13, 14, 100}, patch \in {0, 1}}

Digit(d) == SubSeq("0123456789", d + 1, d + 1)

\* A number as package.json writes it
RECURSIVE Decimal(_)
Decimal(n) == IF n < 10 THEN Digit(n) ELSE Decimal(n \div 10) \o Digit(n % 10)

\* getServerlessVersion: the version string of the installed serverless
getServerlessVersion(installed) ==
    Decimal(installed[1]) \o "." \o Decimal(installed[2]) \o "." \o Decimal(installed[3])

\* The UTF-16 code unit of a character of a version string
CodeUnit(c) == IF c = "." THEN 46 ELSE 48 + (CHOOSE d \in 0..9 : Digit(d) = c)

\* a < b on two strings: by code units, a proper prefix being the smaller
RECURSIVE StringLess(_, _)
StringLess(a, b) ==
    IF b = "" THEN FALSE
    ELSE IF a = "" THEN TRUE
    ELSE IF Head(a) = Head(b) THEN StringLess(Tail(a), Tail(b))
    ELSE CodeUnit(Head(a)) < CodeUnit(Head(b))

MinimumVersion == "1.13.0"

\* validateServerlessVersion: throws below the minimum version
validateServerlessVersion(version) ==
    IF StringLess(version, MinimumVersion) THEN "throws" ELSE "returns"

\* The arguments formatSNSArn is given: getRegion()'s result, the account id and
\* the topic name are strings that nothing validates.
ArnRegions == {"eu", "us", "eu:1"}
ArnAccounts == {"1", "2"}
ArnTopicNames == {"t", "2:t"}
ArnTriples == ArnRegions \X ArnAccounts \X ArnTopicNames

\* The constructor of one plugin instance, or formatSNSArn called on two triples
Probes ==
    {[op |-> "constructor", installed |-> v, done |-> FALSE, result |-> Undefined] :
        v \in Versions}
    \cup {[op |-> "formatSNSArn", args |-> <<s, t>>, done |-> FALSE, result |-> Undefined] :
              s \in ArnTriples, t \in ArnTriples}

InitPure ==
    /\ probe \in Probes
    /\ service = [provider |-> [name |-> "aws"]]
    /\ options = [stage |-> "dev"]
    /\ stack = NoStack
    /\ variableStrings = <<>>
    /\ currentTopics = <<>>
    /\ topicRefs = <<>>
    /\ accountId = Undefined
    /\ accoundId = Undefined
    /\ hook = [h \in HookNames |-> [pc |-> 0, st |-> "idle"]]
    /\ tasks = <<>>
    /\ calls = <<>>

\* new SNSPlus(serverless, options): the version check at the end of the constructor
Constructor ==
    /\ probe.op = "constructor" /\ ~probe.done
    /\ probe' = [probe EXCEPT !.done = TRUE,
                    !.result = validateServerlessVersion(getServerlessVersion(probe.installed))]
    /\ UNCHANGED <<stack, variableStrings, service, options, currentTopics, topicRefs, accountId, accoundId, hook, tasks, calls>>

\* formatSNSArn evaluated for each of the two triples
FormatSNSArn ==
    /\ probe.op = "formatSNSArn" /\ ~probe.done
    /\ probe' = [probe EXCEPT !.done = TRUE,
                    !.result = [k \in 1..2 |-> FormatArn(probe.args[k][1], probe.args[k][2],
                                                         probe.args[k][3])]]
    /\ UNCHANGED <<stack, variableStrings, service, options, currentTopics, topicRefs, accountId, accoundId, hook, tasks, calls>>

NextPure == Constructor \/ FormatSNSArn

SpecPure == InitPure /\ [][NextPure]_vars

\* ---------------------------------------------------------------- claims
Package == "before:package:initialize"
PreDeploy == "before:deploy:deploy"
PostDeploy == "after:deploy:deploy"

CallIds(cs, method) == {i \in DOMAIN cs : cs[i].method = method}
ParamsOf(cs, method) ==
    LET of == SelectSeq(cs, LAMBDA c : c.method = method)
    IN [i \in 1..Len(of) |-> of[i].params]

\* C1: once a getAccountId invocation has resolved and no other is in flight
\* or has failed, a later invocation issues no further STS getCallerIdentity
\* request: the number of such requests stays what it was.
C1_ResolvedAccountIdNeverRefetched ==
    [][(/\ accountId # Undefined
        /\ \A i \in CallIds(calls, "getCallerIdentity") : calls[i].st = "ok")
       => Cardinality(CallIds(calls', "getCallerIdentity"))
            = Cardinality(CallIds(calls, "getCallerIdentity"))]_vars

ZeroZero == [Attributes |-> [SubscriptionsPending |-> "0", SubscriptionsConfirmed |-> "0"]]
\* The entries of the snapshot that hold topic T and whose lookup was answered with r
EntriesAnswered(T, R) ==
    {i \in CallIds(calls, "getTopicAttributes") :
        calls[i].params.TopicArn = T /\ calls[i].st = "ok" /\ calls[i].resp \in R}
DeletesOf(T) == {i \in CallIds(calls, "deleteTopic") : calls[i].params.TopicArn = T}

\* C2 as stated: for every topic T of the snapshot, a lookup of T that reports
\* zero pending and zero confirmed subscriptions comes with exactly one
\* deleteTopic request for T, and one that reports a nonzero count with none.
C2_OneDeletePerTopic ==
    \A T \in Range(currentTopics) :
        /\ EntriesAnswered(T, {ZeroZero}) # {} => Cardinality(DeletesOf(T)) = 1
        /\ EntriesAnswered(T, AttributeResponses \ {ZeroZero, NullResponse}) # {}
              => DeletesOf(T) = {}

\* C2 amended: per entry of the snapshot. The deleteTopic requests for a topic T
\* are as many as the entries of T whose lookup reported zero pending and zero
\* confirmed subscriptions, each issued for its own entry; entries whose lookup
\* reported a nonzero count, nothing, or failed get none.
C2_OneDeletePerEntry ==
    /\ \A T \in DeployedArns :
          Cardinality(DeletesOf(T)) = Cardinality(EntriesAnswered(T, {ZeroZero}))
    /\ \A d \in CallIds(calls, "deleteTopic") :
          \E l \in EntriesAnswered(calls[d].params.TopicArn, {ZeroZero}) :
              /\ calls[l].by = calls[d].by
              /\ currentTopics[calls[l].by.idx] = calls[d].params.TopicArn
              /\ l < d

\* C2 witness: a topic listed twice in the snapshot, one entry answered with zero
\* and zero (and deleted), the other with a nonzero count (and kept).
C2_Witness ==
    \E T \in DeployedArns :
        /\ currentTopics = <<T, T>>
        /\ Cardinality(EntriesAnswered(T, {ZeroZero})) = 1
        /\ Cardinality(EntriesAnswered(T, AttributeResponses \ {ZeroZero, NullResponse})) = 1
        /\ Cardinality(DeletesOf(T)) = 1

\* C3: a failed getTopicAttributes lookup leaves its topic undeleted and is not
\* surfaced: the post-deploy hook is not rejected, and it is resolved once the
\* other entries of the snapshot are done.
C3_LookupFailureNotSurfaced ==
    (\E i \in CallIds(calls, "getTopicAttributes") : calls[i].st = "failed")
    => /\ hook[PostDeploy].st # "rejected"
       /\ \A i \in CallIds(calls, "getTopicAttributes") :
             calls[i].st = "failed"
             => ~\E d \in CallIds(calls, "deleteTopic") : calls[d].by = calls[i].by
       /\ (\A i \in DOMAIN calls : calls[i].st # "pending") => hook[PostDeploy].st = "resolved"

\* C4 as stated: createTopic requests are issued only in the post-deploy hook,
\* none by the pre-deploy hook.
C4_CreateOnlyAfterDeploy ==
    \A i \in CallIds(calls, "createTopic") : calls[i].by.hook = PostDeploy

\* C4 amended: the pre-deploy hook first snapshots the current topics and then
\* issues the createTopic requests itself, after its getTemplate request has
\* settled; the post-deploy hook issues none, and every createTopic request has
\* completed successfully before the cleanup issues its first request.
C4_CreateBeforeDeployThenCleanup ==
    /\ \A i \in CallIds(calls, "createTopic") :
          /\ calls[i].by.hook = PreDeploy
          /\ \E t \in CallIds(calls, "getTemplate") : t < i /\ calls[t].st # "pending"
    /\ \A t \in CallIds(calls, "getTemplate") : calls[t].by.hook = PreDeploy
    /\ \A j \in CallIds(calls, "getTopicAttributes") \cup CallIds(calls, "deleteTopic") :
          /\ calls[j].by.hook = PostDeploy
          /\ \A i \in CallIds(calls, "createTopic") : i < j /\ calls[i].st = "ok"

\* C4 witness: the cleanup has issued a lookup in a deploy that created a topic.
C4_Witness ==
    /\ CallIds(calls, "createTopic") # {}
    /\ CallIds(calls, "getTopicAttributes") # {}

\* C5: once the getTemplate request has failed, the stored snapshot is empty and
\* the pre-deploy hook is in its next step, createSNSTopics, not rejected by
\* the failure.
C5_TemplateFailureGivesEmptySnapshot ==
    \A t \in CallIds(calls, "getTemplate") :
        calls[t].st = "failed"
        => /\ currentTopics = <<>>
           /\ hook[PreDeploy].pc = 2
           /\ Hooks[PreDeploy][hook[PreDeploy].pc] = "createSNSTopics"

\* C5 witness: getTemplate failed and the next step has issued its requests.
C5_Witness ==
    /\ \E t \in CallIds(calls, "getTemplate") : calls[t].st = "failed"
    /\ CallIds(calls, "createTopic") # {}
    /\ hook[PreDeploy].st = "resolved"

CreateStepDone(states) == hook[PreDeploy].pc = 2 /\ hook[PreDeploy].st \in states
CleanupStepDone(states) == hook[PostDeploy].st \in states
FanOut(h) == {i \in DOMAIN calls : calls[i].by.hook = h /\ calls[i].method # "getTemplate"}

\* C6 as stated: a create-topics or cleanup step that has completed, resolved
\* or rejected, has no request of its fan-out still in flight.
C6_CompletesAfterAllSettled ==
    /\ CreateStepDone({"resolved", "rejected"})
          => \A i \in FanOut(PreDeploy) : calls[i].st # "pending"
    /\ CleanupStepDone({"resolved", "rejected"})
          => \A i \in FanOut(PostDeploy) : calls[i].st # "pending"

\* C6 amended: a step resolves only after every request of its fan-out has
\* settled successfully, and a step one of whose requests has failed is
\* rejected right away, whether or not other requests are still in flight.
C6_ResolvesAfterAllSucceeded ==
    /\ CreateStepDone({"resolved"}) => \A i \in FanOut(PreDeploy) : calls[i].st = "ok"
    /\ CleanupStepDone({"resolved"}) => \A i \in FanOut(PostDeploy) : calls[i].st = "ok"
    /\ (\E i \in FanOut(PreDeploy) : calls[i].st = "failed") => CreateStepDone({"rejected"})
    /\ (\E i \in FanOut(PostDeploy) : calls[i].st = "failed") => CleanupStepDone({"rejected"})

\* C6 witness: the create-topics step was rejected by a failed request while
\* another request of the same fan-out is still in flight.
C6_Witness ==
    /\ CreateStepDone({"rejected"})
    /\ \E i, j \in FanOut(PreDeploy) : calls[i].st = "failed" /\ calls[j].st = "pending"

\* The topic names of the tagged events, walking the functions in order and,
\* within each function, its events in order.
RECURSIVE TaggedNamesFrom(_, _, _)
TaggedNamesFrom(funcs, k, j) ==
    IF k > Len(funcs) THEN <<>>
    ELSE IF "events" \notin DOMAIN funcs[k] \/ j > Len(funcs[k].events)
         THEN TaggedNamesFrom(funcs, k + 1, 1)
         ELSE (IF "snsPlus" \in DOMAIN funcs[k].events[j]
               THEN <<funcs[k].events[j].snsPlus>> ELSE <<>>)
              \o TaggedNamesFrom(funcs, k, j + 1)

DeclaredFunctions == IF "functions" \in DOMAIN service THEN service.functions ELSE <<>>
TaggedNames == TaggedNamesFrom(DeclaredFunctions, 1, 1)

\* C7: with no variable reference recorded, allSNSPlusTopics is the list of the
\* topic names of the tagged events, one per tagged event, in function order and
\* then event order; nothing else contributes.
C7_ScannerReturnsTaggedEventsInOrder ==
    topicRefs = <<>> => allSNSPlusTopics = TaggedNames

\* C7 witness: createSNSTopics has scanned a map of two functions, one with only
\* an untagged event and one with a tagged event, with no variable reference.
C7_Witness ==
    /\ topicRefs = <<>>
    /\ hook[PreDeploy].pc = 2 /\ hook[PreDeploy].st = "waiting"
    /\ Len(DeclaredFunctions) = 2
    /\ Len(TaggedNames) = 1
    /\ \E k \in 1..2 : /\ "events" \in DOMAIN DeclaredFunctions[k]
                       /\ Len(DeclaredFunctions[k].events) = 1
                       /\ "snsPlus" \notin DOMAIN DeclaredFunctions[k].events[1]

CreatedNames ==
    LET params == ParamsOf(calls, "createTopic")
    IN [i \in 1..Len(params) |-> params[i].Name]
Occurrences(seq, x) == Cardinality({i \in DOMAIN seq : seq[i] = x})
ResolvedReferences(name) ==
    {k \in DOMAIN tasks : tasks[k].st = "resolved" /\ tasks[k].variableString = "snsPlus:" \o name}
CreateIssued == hook[PreDeploy].pc = 2 /\ hook[PreDeploy].st # "ready"

\* C8: once createSNSTopics has run, the createTopic requests are, in order, one
\* per tagged event and then one per recorded variable reference, duplicates
\* included, and there is no other createTopic request; before it has run
\* there is none at all.
C8_OneCreatePerCreationSetEntry ==
    IF CreateIssued
    THEN LET n == Len(TaggedNames) IN
         /\ Len(CreatedNames) = n + Len(topicRefs)
         /\ SubSeq(CreatedNames, 1, n) = TaggedNames
         /\ \A name \in TopicNames :
               Occurrences(SubSeq(CreatedNames, n + 1, Len(CreatedNames)), name)
                 = Cardinality(ResolvedReferences(name))
    ELSE CreatedNames = <<>>

\* C8 witness: a topic named by a tagged event and by a variable reference got
\* two createTopic requests.
C8_Witness ==
    /\ CreateIssued
    /\ CreatedNames = <<"a", "a">>
    /\ TaggedNames = <<"a">>
    /\ Cardinality(ResolvedReferences("a")) = 1

NoFunctionsNoReferences ==
    /\ DeclaredFunctions = <<>>
    /\ \A k \in DOMAIN tasks : tasks[k].st = "delegated"

\* C9 as stated: with no functions and no variable references, no createTopic
\* and no deleteTopic request is issued, whatever the deployed stack holds.
C9_NoFunctionsNoRequests ==
    NoFunctionsNoReferences
    => CallIds(calls, "createTopic") = {} /\ CallIds(calls, "deleteTopic") = {}

\* C9 amended: with no functions and no variable references no createTopic
\* request is issued, and a deleteTopic request is issued only when the service
\* has custom.snsPlusClean set, for the literal TopicArn of a subscription of the
\* deployed stack whose lookup reported zero pending and zero confirmed.
C9_NoFunctionsOnlyCleanupDeletes ==
    NoFunctionsNoReferences
    => /\ CallIds(calls, "createTopic") = {}
       /\ \A d \in CallIds(calls, "deleteTopic") :
             /\ "custom" \in DOMAIN service /\ service.custom.snsPlusClean
             /\ stack.exists
             /\ \E k \in DOMAIN stack.Resources :
                   /\ stack.Resources[k].Type = "AWS::SNS::Subscription"
                   /\ stack.Resources[k].Properties.TopicArn = calls[d].params.TopicArn
             /\ EntriesAnswered(calls[d].params.TopicArn, {ZeroZero}) # {}

\* C9 witness: a deploy of a service without functions has issued a deleteTopic
\* request.
C9_Witness ==
    /\ NoFunctionsNoReferences
    /\ CallIds(calls, "deleteTopic") # {}

EffectiveRegion ==
    CASE "region" \in DOMAIN options -> options.region
      [] "region" \notin DOMAIN options /\ "region" \in DOMAIN service.provider
           -> service.provider.region
      [] OTHER -> "us-east-1"
ExpectedArn(name) == "arn:aws:sns:" \o EffectiveRegion \o ":" \o StsAccount \o ":" \o name

\* The function map `after` is `before` with the sns field of every tagged event
\* set to the expected ARN and everything else as it was.
Rewritten(before, after) ==
    /\ DOMAIN after = DOMAIN before
    /\ \A key \in DOMAIN before \ {"functions"} : after[key] = before[key]
    /\ "functions" \in DOMAIN before =>
         /\ Len(after.functions) = Len(before.functions)
         /\ \A k \in DOMAIN before.functions :
               LET f == before.functions[k]
                   g == after.functions[k]
               IN /\ DOMAIN g = DOMAIN f
                  /\ g.handler = f.handler
                  /\ "events" \in DOMAIN f =>
                       /\ Len(g.events) = Len(f.events)
                       /\ \A j \in DOMAIN f.events :
                             IF "snsPlus" \in DOMAIN f.events[j]
                             THEN g.events[j] = [snsPlus |-> f.events[j].snsPlus,
                                                 sns |-> ExpectedArn(f.events[j].snsPlus)]
                             ELSE g.events[j] = f.events[j]

PackageResolves == hook[Package].st # "resolved" /\ hook'[Package].st = "resolved"

\* C10: the step in which the pre-package hook resolves sets the sns field of
\* every tagged event to the ARN of the effective region, the account id and
\* the event's topic name and changes nothing else of the service; no other
\* step changes the service.
C10_RewriteSetsArnOnTaggedEventsOnly ==
    [][IF PackageResolves THEN Rewritten(service, service') ELSE service' = service]_vars

\* C10 witness: after the hook, a function holds an untagged event as it was and
\* a tagged event with the ARN of the region given as an option.
C10_Witness ==
    /\ hook[Package].st = "resolved"
    /\ \E k \in DOMAIN DeclaredFunctions :
          /\ "events" \in DOMAIN DeclaredFunctions[k]
          /\ DeclaredFunctions[k].events =
                <<[sns |-> "existing-topic"],
                  [snsPlus |-> "a", sns |-> "arn:aws:sns:eu-west-1:123456789012:a"]>>
    /\ Get(service.provider, "region") = "ap-south-1"

\* ---- C11
HasColon(s) == \E k \in 1..Len(s) : SubSeq(s, k, k) = ":"
ArnsCompared == probe.op = "formatSNSArn" /\ probe.done

\* C11 as stated: formatSNSArn is injective over (region, accountId, topicName):
\* two different triples never yield the same ARN.
C11_ArnInjective ==
    ArnsCompared /\ probe.args[1] # probe.args[2] => probe.result[1] # probe.result[2]

\* C11 (amended): two different triples whose regions and account ids contain
\* no ":" never yield the same ARN.
C11_ArnInjectiveWithoutColons ==
    (/\ ArnsCompared
     /\ probe.args[1] # probe.args[2]
     /\ \A k \in 1..2 : ~HasColon(probe.args[k][1]) /\ ~HasColon(probe.args[k][2]))
    => probe.result[1] # probe.result[2]

\* Two triples that differ in the account id only, both with ":" in its topic name
C11_Witness ==
    /\ ArnsCompared
    /\ probe.args = <<(<<"eu", "1", "2:t">>), (<<"eu", "2", "2:t">>)>>
    /\ probe.result = <<"arn:aws:sns:eu:1:2:t", "arn:aws:sns:eu:2:2:t">>

\* ---- C17
\* a is lower than b in semver order (major, then minor, then patch)
SemverLower(a, b) ==
    \/ a[1] < b[1]
    \/ a[1] = b[1] /\ a[2] < b[2]
    \/ a[1] = b[1] /\ a[2] = b[2] /\ a[3] < b[3]

\* C17: the constructor throws the incompatible-version error exactly when the
\* installed serverless is lower than 1.13.0 in semver order.
C17_ThrowsIffSemverLower ==
    probe.op = "constructor" /\ probe.done
    => (probe.result = "throws" <=> SemverLower(probe.installed, <<1, 13, 0>>))

\* ---- C12
IdentityFails(i) ==
    /\ i \in DOMAIN calls /\ Pending(i, "getCallerIdentity")
    /\ calls'[i].st = "failed"

\* C12: when the getCallerIdentity lookup fails, the failure is propagated: a
\* lookup made for the pre-package hook rejects the hook and rewrites no event; a
\* lookup made for an snsPlus variable rejects that resolution and adds no topic
\* name to topicRefs.
C12_IdentityFailurePropagates ==
    [][\A i \in DOMAIN calls : IdentityFails(i) =>
          /\ topicRefs' = topicRefs
          /\ service' = service
          /\ accountId' = accountId
          /\ IF calls[i].by.hook = "getValueFromSource"
             THEN /\ tasks[calls[i].by.idx].st = "pending"
                  /\ tasks'[calls[i].by.idx].st = "rejected"
                  /\ tasks'[calls[i].by.idx].value = Undefined
             ELSE /\ calls[i].by.hook = Package
                  /\ hook'[Package].st = "rejected"]_vars

\* A variable resolution was rejected by its failed lookup after another one had
\* recorded its topic name.
C12_VariableRejected ==
    /\ \E k \in DOMAIN tasks : tasks[k].st = "rejected"
    /\ \E k \in DOMAIN tasks : tasks[k].st = "resolved"
    /\ Len(topicRefs) = 1

\* The pre-package hook was rejected by its failed lookup, with a tagged event
\* left without an ARN.
C12_Witness ==
    /\ hook[Package].st = "rejected"
    /\ \E i \in CallIds(calls, "getCallerIdentity") :
          calls[i].by.hook = Package /\ calls[i].st = "failed"
    /\ topicRefs = <<>>
    /\ \E f \in DOMAIN allFunctions :
          /\ "events" \in DOMAIN allFunctions[f]
          /\ \E e \in DOMAIN allFunctions[f].events :
                /\ EventTagged(allFunctions[f].events[e])
                /\ "sns" \notin DOMAIN allFunctions[f].events[e]

\* ---- C13
\* C13: the cleanup deletes only orphaned topics: no deleteTopic request is issued
\* for the ARN of a topic that the same deploy created from its creation set.
C13_NoDeleteOfCreatedTopic ==
    \A d \in CallIds(calls, "deleteTopic") :
        \A c \in CallIds(calls, "createTopic") :
            calls[d].params.TopicArn # formatSNSArn(StsAccount, calls[c].params.Name)

\* ---- C14
\* The snapshot that a settled getTemplate request leaves in currentTopics
RECURSIVE LiteralSubscriptionArns(_)
LiteralSubscriptionArns(resources) ==
    IF resources = <<>> THEN <<>>
    ELSE LET r == Head(resources)
             keep == /\ r.Type = "AWS::SNS::Subscription"
                     /\ "TopicArn" \in DOMAIN r.Properties
                     /\ r.Properties.TopicArn \notin {RefObject, ""}
         IN (IF keep THEN <<r.Properties.TopicArn>> ELSE <<>>)
            \o LiteralSubscriptionArns(Tail(resources))
SnapshotAfter(t) ==
    IF calls[t].st = "ok" THEN LiteralSubscriptionArns(calls[t].resp.Resources) ELSE <<>>

\* The remote requests a step issues
RequestsOf(step) ==
    CASE step = "convertToSNSEvents" -> {"getCallerIdentity"}
      [] step = "saveCurrentSNSTopics" -> {"getTemplate"}
      [] step = "createSNSTopics" -> {"createTopic"}
      [] step = "cleanUpOrphanedTopics" -> {"getTopicAttributes", "deleteTopic"}

LookupsInFlight == {i \in CallIds(calls, "getCallerIdentity") : calls[i].st = "pending"}
IsSnsPlusReference(v) == \E name \in TopicNames : v = "snsPlus:" \o name
ReferencedName(v) == CHOOSE name \in TopicNames : v = "snsPlus:" \o name

\* C15: concurrent account resolutions are not deduplicated. A resolution of an
\* snsPlus reference that starts while a lookup is in flight issues its own
\* getCallerIdentity request and records nothing yet; and every lookup of a
\* variable resolution that succeeds resolves it to the topic's ARN with the
\* account id and appends its topic name to topicRefs.
C15_ConcurrentLookupsNotShared ==
    [][/\ (/\ LookupsInFlight # {}
           /\ Len(tasks') = Len(tasks) + 1
           /\ IsSnsPlusReference(tasks'[Len(tasks')].variableString))
          => /\ Len(calls') = Len(calls) + 1
             /\ calls'[Len(calls')].method = "getCallerIdentity"
             /\ calls'[Len(calls')].st = "pending"
             /\ calls'[Len(calls')].by = [hook |-> "getValueFromSource", idx |-> Len(tasks')]
             /\ tasks'[Len(tasks')].st = "pending"
             /\ topicRefs' = topicRefs
       /\ \A i \in LookupsInFlight :
             calls[i].by.hook = "getValueFromSource" /\ calls'[i].st = "ok"
             => LET k == calls[i].by.idx
                    name == ReferencedName(tasks[k].variableString)
                IN /\ tasks'[k].st = "resolved"
                   /\ tasks'[k].value = ExpectedArn(name)
                   /\ accountId' = StsAccount
                   /\ topicRefs' = Append(topicRefs, name)]_vars

\* C15 witness: two resolutions in flight at once, each with its own lookup.
C15_Witness ==
    /\ Len(tasks) = 2
    /\ \A k \in DOMAIN tasks : tasks[k].st = "pending"
    /\ Cardinality(LookupsInFlight) = 2

\* Both of them have resolved and recorded their topic name.
C15_BothResolved ==
    /\ Len(tasks) = 2
    /\ \A k \in DOMAIN tasks : tasks[k].st = "resolved"
    /\ Cardinality(CallIds(calls, "getCallerIdentity")) = 2
    /\ topicRefs = <<"a", "a">>

\* ---- C16
\* The resources of the deployed template that are subscriptions to a literal,
\* non-empty TopicArn
QualifyingResources ==
    {k \in DOMAIN stack.Resources :
        /\ stack.Resources[k].Type = "AWS::SNS::Subscription"
        /\ "TopicArn" \in DOMAIN stack.Resources[k].Properties
        /\ stack.Resources[k].Properties.TopicArn \in DeployedArns}

\* C16: once getTemplate has succeeded, the stored snapshot holds exactly the
\* TopicArn values of the template's AWS::SNS::Subscription resources whose
\* TopicArn is a non-empty literal string, one per such resource in template
\* order; resources of other types, reference objects and empty strings are
\* left out.
C16_SnapshotIsLiteralSubscriptionArns ==
    \A t \in CallIds(calls, "getTemplate") :
        calls[t].st = "ok"
        => /\ Len(currentTopics) = Cardinality(QualifyingResources)
           /\ \A n \in DOMAIN currentTopics :
                 \E k \in QualifyingResources :
                     /\ Cardinality({j \in QualifyingResources : j <= k}) = n
                     /\ currentTopics[n] = stack.Resources[k].Properties.TopicArn

\* C16 witness: a reference object and then a literal ARN, only the latter kept.
C16_Witness ==
    /\ stack.exists
    /\ Len(stack.Resources) = 2
    /\ stack.Resources[1].Type = "AWS::SNS::Subscription"
    /\ stack.Resources[1].Properties.TopicArn = RefObject
    /\ stack.Resources[2].Type = "AWS::SNS::Subscription"
    /\ \E t \in CallIds(calls, "getTemplate") : calls[t].st = "ok"
    /\ currentTopics = <<"arn:aws:sns:us-east-1:123456789012:b">>

\* ---- C18
CleanupNotOptedIn ==
    \/ "custom" \notin DOMAIN service
    \/ "snsPlusClean" \notin DOMAIN service.custom
    \/ service.custom.snsPlusClean = FALSE

\* C18: cleanup is opt-in. When service.custom is absent or custom.snsPlusClean
\* is falsy, no getTopicAttributes and no deleteTopic request is ever issued, and
\* the post-deploy hook, once invoked, resolves without waiting for anything: it
\* is never waiting and never rejected.
C18_CleanupIsOptIn ==
    CleanupNotOptedIn
    => /\ CallIds(calls, "getTopicAttributes") = {}
       /\ CallIds(calls, "deleteTopic") = {}
       /\ \A i \in DOMAIN calls : calls[i].by.hook # PostDeploy
       /\ hook[PostDeploy].st \in {"idle", "ready", "resolved"}

\* C18 witness: the post-deploy hook has resolved with snsPlusClean false and a
\* non-empty snapshot.
C18_Witness ==
    /\ "custom" \in DOMAIN service
    /\ service.custom.snsPlusClean = FALSE
    /\ currentTopics # <<>>
    /\ hook[PostDeploy].st = "resolved"

\* The same with no custom section at all.
C18_WitnessNoCustom ==
    /\ "custom" \notin DOMAIN service
    /\ currentTopics # <<>>
    /\ hook[PostDeploy].st = "resolved"

\* ---- C19
\* C19: the pre-package rewrite keeps the snsPlus tag: in the step in which the
\* hook resolves, every tagged event stays tagged with the same name, so the
\* creation set after the rewrite equals the one before; and rewriting the
\* resulting configuration once more, with the same account id and region,
\* leaves it exactly as the first run left it.
C19_RewriteKeepsTagAndIsIdempotent ==
    [][PackageResolves =>
          /\ allSNSPlusTopics' = allSNSPlusTopics
          /\ TaggedNames' = TaggedNames
          /\ ConvertedFunctions(StsAccount)' = allFunctions'
          /\ Rewritten(service', service')]_vars

\* C19 witness: the hook has resolved on two tagged events, which now hold an
\* ARN and still make up the creation set.
C19_Witness ==
    /\ hook[Package].st = "resolved"
    /\ allSNSPlusTopics = <<"a", "b">>
    /\ \A f \in DOMAIN allFunctions :
          "events" \in DOMAIN allFunctions[f] =>
              \A e \in DOMAIN allFunctions[f].events :
                  /\ EventTagged(allFunctions[f].events[e])
                  /\ allFunctions[f].events[e].sns = ExpectedArn(allFunctions[f].events[e].snsPlus)

\* ---- C20
\* C20: the wrapped resolver handles a variable string itself only when it starts
\* with "snsPlus:": the resolution is then pending on the account id and, when
\* that has resolved, appends the remainder as one topic name to topicRefs and
\* returns its ARN. Every other variable string is passed unchanged to the
\* host's original getValueFromSource, whose result is returned, with no request
\* and topicRefs unchanged. topicRefs only ever grows, by such appends.
C20_ResolverHandlesOnlySnsPlusPrefix ==
    [][/\ Len(tasks') = Len(tasks) + 1 =>
             LET v == variableStrings[Len(tasks')]
                 task == tasks'[Len(tasks')]
             IN /\ task.variableString = v
                /\ topicRefs' = topicRefs
                /\ IF IsSnsPlusReference(v)
                   THEN /\ task.st = "pending"
                        /\ task.topicName = ReferencedName(v)
                        /\ Len(calls') = Len(calls) + 1
                   ELSE /\ task.st = "delegated"
                        /\ task.value = OriginalGetValueFromSource(v)
                        /\ calls' = calls
       /\ topicRefs' # topicRefs =>
             \E k \in DOMAIN tasks :
                 /\ IsSnsPlusReference(tasks[k].variableString)
                 /\ tasks[k].st = "pending" /\ tasks'[k].st = "resolved"
                 /\ accountId' = StsAccount
                 /\ topicRefs' = Append(topicRefs, ReferencedName(tasks[k].variableString))
                 /\ tasks'[k].value = ExpectedArn(ReferencedName(tasks[k].variableString))]_vars

\* C20 witness: a string holding "snsPlus:" past its start was delegated and an
\* snsPlus reference was resolved and recorded.
C20_Witness ==
    /\ Len(tasks) = 2
    /\ tasks[1].variableString = "self:custom.snsPlus:a"
    /\ tasks[1].st = "delegated"
    /\ tasks[1].value = "value-of(self:custom.snsPlus:a)"
    /\ tasks[2].variableString = "snsPlus:a"
    /\ tasks[2].st = "resolved"
    /\ tasks[2].value = "arn:aws:sns:us-east-1:123456789012:a"
    /\ topicRefs = <<"a">>

====
